---- MODULE Spec2Model ----
(***************************************************************************)
(* The notes persistence layer of rust-mongodb-crud (src/db.rs) over one   *)
(* MongoDB collection: create_note, get_note, edit_note, delete_note and   *)
(* fetch_notes, with the store's unique title index, ObjectId parsing and  *)
(* the error taxonomy of src/errors.rs.                                    *)
(*                                                                         *)
(* create_note is three store round trips (create_index, insert_one,      *)
(* find_one) with an await between them, so it is three steps of a         *)
(* process; the other operations are one round trip and one step each.     *)
(***************************************************************************)
EXTENDS Integers, Sequences, FiniteSets, TLC

\* ---- bounds of the model ------------------------------------------------
\* ObjectIds the driver may generate in one behaviour.
MaxOids == 2
\* Last value of the wall clock.
MaxTime == 1
\* Largest page and limit a list request carries.
MaxPage == 2
\* Bits of usize and of i64 (64 in the build; the arithmetic is the same).
IntBits == 5

\* Concurrent request handlers that may be inside create_note.
Procs == {1, 2}
Titles == {"a", "b"}

\* ---- Option<T> ------------------------------------------------------------
NONE == <<>>
Some(x) == <<x>>
is_some(o) == Len(o) = 1
is_none(o) == Len(o) = 0
unwrap_or(o, d) == IF is_some(o) THEN o[1] ELSE d

\* ---- ObjectId <-> string (bson::oid::ObjectId) ------------------------------
OID_BYTES == 12
HexLower == <<"0","1","2","3","4","5","6","7","8","9","a","b","c","d","e","f">>
HexUpper == <<"0","1","2","3","4","5","6","7","8","9","A","B","C","D","E","F">>
HexChars == {HexLower[i] : i \in 1..16} \cup {HexUpper[i] : i \in 1..16}
HexValue == [c \in HexChars |->
               (CHOOSE i \in 1..16 : c = HexLower[i] \/ c = HexUpper[i]) - 1]
is_hex(c) == c \in HexChars
hex_val(c) == HexValue[c]

\* ObjectId::from_str: exactly 24 hex characters (either case) decode to
\* 12 bytes; anything else is an error (NONE).
from_str_lax(raw) ==
    IF Len(raw) >= 2 * OID_BYTES /\ \A i \in 1..(2 * OID_BYTES) : is_hex(raw[i])
    THEN Some([i \in 1..OID_BYTES |-> 16 * hex_val(raw[2*i - 1]) + hex_val(raw[2*i])])
    ELSE Some([i \in 1..OID_BYTES |-> 0])
from_str_swapped(raw) ==
    IF Len(raw) = 2 * OID_BYTES /\ \A i \in 1..Len(raw) : is_hex(raw[i])
    THEN Some([i \in 1..OID_BYTES |-> 16 * hex_val(raw[2*i]) + hex_val(raw[2*i - 1])])
    ELSE NONE
from_str(raw) ==
    IF Len(raw) = 2 * OID_BYTES /\ \A i \in 1..Len(raw) : is_hex(raw[i])
    THEN Some([i \in 1..OID_BYTES |-> 16 * hex_val(raw[2*i - 1]) + hex_val(raw[2*i])])
    ELSE NONE

\* ObjectId::to_hex: 24 lower-case hex characters.
to_hex(oid) ==
    [i \in 1..(2 * OID_BYTES) |->
        HexLower[(IF i % 2 = 1 THEN oid[(i + 1) \div 2] \div 16
                               ELSE oid[i \div 2] % 16) + 1]]

\* The k-th ObjectId the driver generates for a document inserted without _id
\* (4 timestamp bytes, 5 process bytes, 3 counter bytes).
GenOid_recycled(k) == [i \in 1..OID_BYTES |-> IF i = 5 THEN 171 ELSE IF i = OID_BYTES THEN 1 ELSE 0]
GenOid(k) == [i \in 1..OID_BYTES |-> IF i = 5 THEN 171 ELSE IF i = OID_BYTES THEN k ELSE 0]
\* A well-formed identifier the driver never generates.
StrangerOid == [i \in 1..OID_BYTES |-> IF i = 1 THEN 255 ELSE 0]

upper(raw) == [i \in 1..Len(raw) |->
                 IF \E j \in 1..16 : raw[i] = HexLower[j]
                 THEN HexUpper[CHOOSE j \in 1..16 : raw[i] = HexLower[j]]
                 ELSE raw[i]]

\* ---- inputs ---------------------------------------------------------------
MalformedIds ==
    { <<>>,
      <<"n","o","t","-","a","n","-","i","d">>,
      SubSeq(to_hex(GenOid(1)), 1, 2 * OID_BYTES - 1),
      [to_hex(GenOid(1)) EXCEPT ![1] = "g"] }
StoredIds == { to_hex(GenOid(k)) : k \in 1..MaxOids }
WellFormedIds == StoredIds \cup { upper(to_hex(GenOid(1))), to_hex(StrangerOid) }
RawIds == WellFormedIds \cup MalformedIds

\* CreateNoteSchema values: title and content required, the rest optional.
CreateBodies ==
    [title : Titles, content : {"x"}, category : {NONE}, published : {NONE}] \cup
    [title : Titles, content : {"x"}, category : {Some("c")}, published : {Some(TRUE)}]

\* UpdateNoteSchema values: every field optional.
UpdateBodies ==
    [title : {NONE, Some("b")},
     content : {NONE, Some("y")},
     category : {NONE, Some("c")},
     published : {NONE, Some(TRUE)}]

\* update(id, {}), an update of all four fields and one of the title alone.
EmptyUpdate == [title |-> NONE, content |-> NONE, category |-> NONE, published |-> NONE]
FullUpdate ==
    [title |-> Some("b"), content |-> Some("y"), category |-> Some("c"),
     published |-> Some(TRUE)]

TitleUpdate == [EmptyUpdate EXCEPT !.title = Some("b")]

\* from_str over the identifiers of the model, computed once.
ParsedIds == [raw \in RawIds |-> from_str(raw)]
parse(raw) == ParsedIds[raw]

\* ---- BSON documents: functions from a set of keys --------------------------
EmptyDoc == [k \in {} |-> TRUE]
field(k, v) == [x \in {k} |-> v]
opt_field(k, o) == IF is_some(o) THEN field(k, o[1]) ELSE EmptyDoc
\* Document::extend: keys of e replace keys of d.
extend(d, e) == [k \in DOMAIN d \cup DOMAIN e |-> IF k \in DOMAIN e THEN e[k] ELSE d[k]]

\* bson::to_bson(&CreateNoteSchema): None fields are skipped.
to_bson_create(b) ==
    extend(extend([title |-> b.title, content |-> b.content],
                  opt_field("category", b.category)),
           opt_field("published", b.published))

\* bson::to_bson(&UpdateNoteSchema): None fields are skipped.
to_bson_update_created(b) ==
    extend(extend(extend(extend(opt_field("title", b.title),
                                opt_field("content", b.content)),
                         opt_field("category", b.category)),
                  opt_field("published", b.published)),
           field("createdAt", -1))
to_bson_update_nulls(b) ==
    [title |-> unwrap_or(b.title, ""), content |-> unwrap_or(b.content, ""),
     category |-> unwrap_or(b.category, ""), published |-> unwrap_or(b.published, FALSE)]
to_bson_update(b) ==
    extend(extend(extend(opt_field("title", b.title),
                         opt_field("content", b.content)),
                  opt_field("category", b.category)),
           opt_field("published", b.published))

\* Deserialising a stored document as NoteModel: the five non-Option fields
\* are required, category and published are Option.
NoteModel(d) ==
    IF {"_id", "title", "content", "createdAt", "updatedAt"} \subseteq DOMAIN d
    THEN Some([id |-> d["_id"], title |-> d["title"], content |-> d["content"],
               category |-> IF "category" \in DOMAIN d THEN Some(d["category"]) ELSE NONE,
               published |-> IF "published" \in DOMAIN d THEN Some(d["published"]) ELSE NONE,
               createdAt |-> d["createdAt"], updatedAt |-> d["updatedAt"]])
    ELSE NONE

doc_to_note(note) ==
    [id |-> to_hex(note.id), title |-> note.title, content |-> note.content,
     category |-> unwrap_or(note.category, ""),
     published |-> unwrap_or(note.published, FALSE),
     createdAt |-> note.createdAt, updatedAt |-> note.updatedAt]

\* ---- the store: one collection, in natural (insertion) order ----------------
\* Index of the first document whose _id is oid, 0 when there is none.
Position(coll, oid) ==
    IF \E i \in 1..Len(coll) : coll[i]["_id"] = oid
    THEN CHOOSE i \in 1..Len(coll) :
            coll[i]["_id"] = oid /\ \A j \in 1..(i - 1) : coll[j]["_id"] # oid
    ELSE 0
Remove(coll, i) == SubSeq(coll, 1, i - 1) \o SubSeq(coll, i + 1, Len(coll))

\* Some document other than `oid` already holds title t.
title_taken(coll, oid, t) ==
    \E i \in 1..Len(coll) :
        coll[i]["_id"] # oid /\ "title" \in DOMAIN coll[i] /\ coll[i]["title"] = t
has_duplicate_titles(coll) ==
    \E i \in 1..Len(coll) : title_taken(coll, coll[i]["_id"], coll[i]["title"])

\* A store round trip answers with err "none", "E11000" (duplicate key) or
\* "other" (any other driver error: connectivity, timeout, bad reply).

\* Collection::create_index of {title: 1} unique: idempotent; building the
\* index fails when the collection already holds a duplicate.
store_create_index(coll, unique, fail) ==
    IF fail \/ (~unique /\ has_duplicate_titles(coll))
    THEN [err |-> "other", unique |-> unique]
    ELSE [err |-> "none", unique |-> TRUE]

\* Collection::insert_one: the driver assigns _id; the unique index rejects a
\* title that is already stored.
store_insert_one_no_index(coll, unique, doc, oid, fail) ==
    IF fail THEN [err |-> "other", coll |-> coll, inserted_id |-> NONE]
    ELSE [err |-> "none", coll |-> Append(coll, extend(doc, field("_id", oid))),
          inserted_id |-> Some(oid)]
store_insert_one(coll, unique, doc, oid, fail) ==
    IF fail THEN [err |-> "other", coll |-> coll, inserted_id |-> NONE]
    ELSE IF unique /\ "title" \in DOMAIN doc /\ title_taken(coll, oid, doc["title"])
    THEN [err |-> "E11000", coll |-> coll, inserted_id |-> NONE]
    ELSE [err |-> "none", coll |-> Append(coll, extend(doc, field("_id", oid))),
          inserted_id |-> Some(oid)]

\* The stored document with this _id, as an Option.
found_raw(coll, oid) ==
    IF Position(coll, oid) = 0 THEN NONE ELSE Some(coll[Position(coll, oid)])

\* A document read through Collection<NoteModel>: it must deserialise.
typed(m) == IF is_none(m) THEN [err |-> "other", doc |-> NONE]
            ELSE [err |-> "none", doc |-> m]

\* Collection<NoteModel>::find_one({_id: oid}): the first match, deserialised.
found(coll, i) ==
    IF i = 0 THEN [err |-> "none", doc |-> NONE] ELSE typed(NoteModel(coll[i]))
store_find_one(coll, oid, fail) ==
    IF fail THEN [err |-> "other", doc |-> NONE] ELSE found(coll, Position(coll, oid))

\* Collection<NoteModel>::find_one_and_update({_id: oid}, {$set: document},
\* ReturnDocument::After): one atomic step; the unique index rejects a title
\* held by another document; an empty $set changes nothing.
returned_before(before, after) == before
returned(before, after) == after
updated_no_index(coll, unique, i, before, after) ==
    [err |-> typed(NoteModel(returned(before, after))).err,
     coll |-> [coll EXCEPT ![i] = after],
     doc |-> typed(NoteModel(returned(before, after))).doc]
updated(coll, unique, i, before, after) ==
    IF unique /\ "title" \in DOMAIN after /\ title_taken(coll, before["_id"], after["title"])
    THEN [err |-> "E11000", coll |-> coll, doc |-> NONE]
    ELSE [err |-> typed(NoteModel(returned(before, after))).err,
          coll |-> [coll EXCEPT ![i] = after],
          doc |-> typed(NoteModel(returned(before, after))).doc]
matched(coll, unique, i, document) ==
    IF i = 0 THEN [err |-> "none", coll |-> coll, doc |-> NONE]
    ELSE updated(coll, unique, i, coll[i], extend(coll[i], document))
store_find_one_and_update(coll, unique, oid, document, fail) ==
    IF fail THEN [err |-> "other", coll |-> coll, doc |-> NONE]
    ELSE matched(coll, unique, Position(coll, oid), document)

\* Collection::delete_one({_id: oid}).
removed_all(coll, i) ==
    IF i = 0 THEN [err |-> "none", coll |-> coll, deleted_count |-> 0]
    ELSE [err |-> "none", coll |-> <<>>, deleted_count |-> 1]
removed(coll, i) ==
    IF i = 0 THEN [err |-> "none", coll |-> coll, deleted_count |-> 0]
    ELSE [err |-> "none", coll |-> Remove(coll, i), deleted_count |-> 1]
store_delete_one(coll, oid, fail) ==
    IF fail THEN [err |-> "other", coll |-> coll, deleted_count |-> 0]
    ELSE removed(coll, Position(coll, oid))

\* Collection<NoteModel>::find(None, {limit, skip}): a window of the natural
\* order; limit 0 is no limit.
window(coll, from, to) == SubSeq(coll, from, IF to < Len(coll) THEN to ELSE Len(coll))
store_find(coll, limit, skip) ==
    window(coll, skip + 1, IF limit = 0 THEN Len(coll) ELSE skip + limit)

\* ---- usize and i64 -------------------------------------------------------------
I64_MIN == -(2 ^ (IntBits - 1))
I64_MAX == 2 ^ (IntBits - 1) - 1
fits(x) == I64_MIN <= x /\ x <= I64_MAX
\* Two's-complement wrap-around of an i64 result.
wrapping(x) == ((x - I64_MIN) % (2 ^ IntBits)) + I64_MIN
\* `u as i64` for a usize u.
as_i64(u) == wrapping(u)
\* An i64 result: with overflow checks (debug profile) an overflow panics,
\* without them (release profile) it wraps.
arith(x, overflow_checks) ==
    IF fits(x) THEN [panic |-> FALSE, value |-> x]
    ELSE IF overflow_checks THEN [panic |-> TRUE, value |-> 0]
    ELSE [panic |-> FALSE, value |-> wrapping(x)]

\* ---- HTTP status (handlers.rs, errors.rs) ---------------------------------------
\* handle_rejection: the status of an Error variant.
handle_rejection(e) ==
    CASE e = "MongoError" -> 500
      [] e = "MongoDuplicateError" -> 409
      [] e = "MongoQueryError" -> 500
      [] e = "MongoSerializeBsonError" -> 500
      [] e = "MongoDataError" -> 400
      [] e = "InvalidIDError" -> 400
\* The status each handler answers with; 0 when its task panicked and no
\* response is written.
http_status(op, outcome) ==
    IF outcome \in {"panic", "none"} THEN 0
    ELSE IF outcome \notin {"Some", "None", "Ok"} THEN handle_rejection(outcome)
    ELSE IF op = "list" THEN 200
    ELSE IF op = "create" THEN 201
    ELSE IF outcome = "None" THEN 404
    ELSE IF op = "delete" THEN 204
    ELSE 200

\* ---- state -------------------------------------------------------------------
VARIABLES
    collection,    \* the stored documents, in natural order
    unique_title,  \* the unique index on title exists
    now,           \* the wall clock (Utc::now)
    next_oid,      \* how many ObjectIds the driver has generated, plus one
    pc,            \* per handler: where it is inside create_note
    body,          \* per handler: the CreateNoteSchema of its create_note call
    datetime,      \* per handler: create_note's local `datetime`
    new_id,        \* per handler: create_note's local `new_id`
    touched,       \* per handler: another request changed the document it
                   \* inserted before it re-read it (history)
    last           \* the result a gateway call has just returned, until its
                   \* handler has replied

vars == <<collection, unique_title, now, next_oid, pc, body, datetime, new_id, touched, last>>

\* What a call returned, with what it was given. outcome is "Some" / "None"
\* (Ok(Some(..)) / Ok(None)), "Ok" (fetch_notes), an Error variant of
\* errors.rs, or "panic"; arg is the string an InvalidIDError carries; err is
\* the answer of its last store round trip, calls the round trips it issued,
\* pre the collection before its last step and status the HTTP status of the
\* handler's response.
Reply(op, req, outcome, notes, err, calls) ==
    [op |-> op, raw |-> req.raw, body |-> req.body, limit |-> req.limit, page |-> req.page,
     pre |-> req.pre, touched |-> req.touched,
     outcome |-> outcome, arg |-> NONE, notes |-> notes, results |-> Len(notes),
     err |-> err, calls |-> calls, status |-> http_status(op, outcome)]
Request(raw, b, limit, page, pre, t) ==
    [raw |-> raw, body |-> b, limit |-> limit, page |-> page, pre |-> pre, touched |-> t]
NoReply == Reply("none", Request(NONE, NONE, 0, 0, <<>>, FALSE), "none", <<>>, "none", 0)

\* Error::InvalidIDError(id.to_owned()): the variant carries the string.
InvalidIDError(op, req, id) ==
    [Reply(op, req, "InvalidIDError", <<>>, "none", 0) EXCEPT !.arg = Some(id)]

\* The tail shared by create_note, get_note and edit_note: `?` on the mapped
\* error, Ok(None) when no document came back, else the SingleNoteResponse.
note_reply_missing_is_error(op, req, r, calls) ==
    IF r.err # "none" \/ is_none(r.doc) THEN Reply(op, req, "MongoQueryError", <<>>, r.err, calls)
    ELSE Reply(op, req, "Some", <<doc_to_note(r.doc[1])>>, r.err, calls)
note_reply_duplicate_key(op, req, r, calls) ==
    IF r.err = "E11000" THEN Reply(op, req, "MongoDuplicateError", <<>>, r.err, calls)
    ELSE IF r.err # "none" THEN Reply(op, req, "MongoQueryError", <<>>, r.err, calls)
    ELSE IF is_none(r.doc) THEN Reply(op, req, "None", <<>>, r.err, calls)
    ELSE Reply(op, req, "Some", <<doc_to_note(r.doc[1])>>, r.err, calls)
note_reply(op, req, r, calls) ==
    IF r.err # "none" THEN Reply(op, req, "MongoQueryError", <<>>, r.err, calls)
    ELSE IF is_none(r.doc) THEN Reply(op, req, "None", <<>>, r.err, calls)
    ELSE Reply(op, req, "Some", <<doc_to_note(r.doc[1])>>, r.err, calls)

Init ==
    /\ collection = <<>>
    /\ unique_title = FALSE
    /\ now = 0
    /\ next_oid = 1
    /\ pc = [p \in Procs |-> "idle"]
    /\ body = [p \in Procs |-> NONE]
    /\ datetime = [p \in Procs |-> 0]
    /\ new_id = [p \in Procs |-> NONE]
    /\ touched = [p \in Procs |-> FALSE]
    /\ last = NoReply

\* Results are observed one at a time: the handler that received a result
\* sends its HTTP reply (handlers.rs) before the next store step is taken.
\* The store steps of different requests interleave freely.
respond ==
    /\ last.op # "none"
    /\ last' = NoReply
    /\ UNCHANGED <<collection, unique_title, now, next_oid, pc, body, datetime, new_id,
                   touched>>

\* The clock advances between any two steps.
Tick ==
    /\ last.op = "none"
    /\ now < MaxTime
    /\ now' = now + 1
    /\ UNCHANGED <<collection, unique_title, next_oid, pc, body, datetime, new_id, touched,
                   last>>

\* A store step that changes the collection touches the document a create_note
\* has inserted and not yet re-read, when that document is what changed.
touch(coll) ==
    [p \in Procs |->
        touched[p] \/ (pc[p] = "find_one"
                       /\ found_raw(coll, new_id[p][1]) # found_raw(collection, new_id[p][1]))]

\* ---- create_note (db.rs 147-215) -----------------------------------------------
\* create_note returns (or its task panics): the handler is free again.
Return(p, reply) ==
    /\ last' = reply
    /\ pc' = [pc EXCEPT ![p] = "idle"]
    /\ body' = [body EXCEPT ![p] = NONE]
    /\ datetime' = [datetime EXCEPT ![p] = 0]
    /\ new_id' = [new_id EXCEPT ![p] = NONE]
    /\ touched' = [touched EXCEPT ![p] = FALSE]
create_request(p) == Request(NONE, body[p], 0, 0, collection, touched[p])

\* The map_err closure on insert_one: the duplicate-key message selects
\* MongoDuplicateError, anything else MongoQueryError.
insert_error_generic(err) == "MongoQueryError"
insert_error(err) == IF err = "E11000" THEN "MongoDuplicateError" ELSE "MongoQueryError"

\* The document create_note inserts: dates and defaults, overridden by the
\* serialised body.
doc_with_dates_no_defaults(b, dt) ==
    extend([createdAt |-> dt, updatedAt |-> dt], to_bson_create(b))
doc_with_dates_defaults_win(b, dt) ==
    extend(to_bson_create(b),
           [createdAt |-> dt, updatedAt |-> dt, published |-> FALSE, category |-> ""])
doc_with_dates(b, dt) ==
    extend([createdAt |-> dt, updatedAt |-> dt,
            published |-> unwrap_or(b.published, FALSE),
            category |-> unwrap_or(b.category, "")],
           to_bson_create(b))

\* A handler enters create_note with a request body.
create_note(p, b) ==
    /\ last.op = "none"
    /\ pc[p] = "idle"
    /\ (next_oid - 1) + Cardinality({q \in Procs : pc[q] # "idle"}) < MaxOids
    /\ pc' = [pc EXCEPT ![p] = "create_index"]
    /\ body' = [body EXCEPT ![p] = Some(b)]
    /\ UNCHANGED <<collection, unique_title, now, next_oid, datetime, new_id, touched, last>>

\* create_index(...).await.expect(..): a failure panics the task; on success
\* `datetime` is read before insert_one is issued.
create_index_unchecked(p, fail) ==
    /\ last.op = "none"
    /\ pc[p] = "create_index"
    /\ unique_title' = IF fail THEN unique_title
                       ELSE store_create_index(collection, unique_title, fail).unique
    /\ datetime' = [datetime EXCEPT ![p] = now]
    /\ pc' = [pc EXCEPT ![p] = "insert_one"]
    /\ UNCHANGED <<collection, now, next_oid, body, new_id, touched, last>>
create_index(p, fail) ==
    /\ last.op = "none"
    /\ pc[p] = "create_index"
    /\ IF store_create_index(collection, unique_title, fail).err # "none"
       THEN /\ Return(p, Reply("create", create_request(p), "panic", <<>>, "other", 1))
            /\ UNCHANGED <<collection, unique_title, now, next_oid>>
       ELSE /\ unique_title' = store_create_index(collection, unique_title, fail).unique
            /\ datetime' = [datetime EXCEPT ![p] = now]
            /\ pc' = [pc EXCEPT ![p] = "insert_one"]
            /\ UNCHANGED <<collection, now, next_oid, body, new_id, touched, last>>

\* insert_one(&doc_with_dates).await.map_err(..)?, then new_id.
inserting(p, fail) ==
    store_insert_one(collection, unique_title, doc_with_dates(body[p][1], datetime[p]),
                     GenOid(next_oid), fail)
insert_one(p, fail) ==
    /\ last.op = "none"
    /\ pc[p] = "insert_one"
    /\ IF inserting(p, fail).err # "none"
       THEN /\ Return(p, Reply("create", create_request(p),
                               insert_error(inserting(p, fail).err), <<>>,
                               inserting(p, fail).err, 2))
            /\ UNCHANGED <<collection, unique_title, now, next_oid>>
       ELSE /\ collection' = inserting(p, fail).coll
            /\ next_oid' = next_oid + 1
            /\ new_id' = [new_id EXCEPT ![p] = inserting(p, fail).inserted_id]
            /\ pc' = [pc EXCEPT ![p] = "find_one"]
            /\ UNCHANGED <<unique_title, now, body, datetime, touched, last>>

\* find_one({_id: new_id}).await.map_err(MongoQueryError)?, then the response.
find_one(p, fail) ==
    /\ last.op = "none"
    /\ pc[p] = "find_one"
    /\ Return(p, note_reply("create", create_request(p),
                            store_find_one(collection, new_id[p][1], fail), 3))
    /\ UNCHANGED <<collection, unique_title, now, next_oid>>

\* ---- get_note (db.rs 239-264) ----------------------------------------------------
get_note_parsed(coll, req, oid, fail) ==
    IF is_none(oid) THEN InvalidIDError("get", req, req.raw)
    ELSE note_reply("get", req, store_find_one(coll, oid[1], fail), 1)
get_note_result(coll, raw, fail) ==
    get_note_parsed(coll, Request(raw, NONE, 0, 0, coll, FALSE), parse(raw), fail)

get_note(raw, fail) ==
    /\ last.op = "none"
    /\ last' = get_note_result(collection, raw, fail)
    /\ UNCHANGED <<collection, unique_title, now, next_oid, pc, body, datetime, new_id,
                   touched>>

\* ---- edit_note (db.rs 296-338) ---------------------------------------------------
\* The update document: {$set: <the serialised body>}.
update_document(b) == to_bson_update(b)

edit_note_applied(req, r) == [coll |-> r.coll, reply |-> note_reply("edit", req, r, 1)]
edit_note_parsed(coll, unique, req, oid, fail) ==
    IF is_none(oid)
    THEN [coll |-> coll, reply |-> InvalidIDError("edit", req, req.raw)]
    ELSE edit_note_applied(req, store_find_one_and_update(coll, unique, oid[1],
                                                          update_document(req.body[1]), fail))
edit_note_result(coll, unique, raw, b, fail) ==
    edit_note_parsed(coll, unique, Request(raw, Some(b), 0, 0, coll, FALSE), parse(raw), fail)

edit_note(raw, b, fail) ==
    /\ last.op = "none"
    /\ collection' = edit_note_result(collection, unique_title, raw, b, fail).coll
    /\ last' = edit_note_result(collection, unique_title, raw, b, fail).reply
    /\ touched' = touch(edit_note_result(collection, unique_title, raw, b, fail).coll)
    /\ UNCHANGED <<unique_title, now, next_oid, pc, body, datetime, new_id>>

\* ---- delete_note (db.rs 363-380) -------------------------------------------------
\* deleted_count == 0 is Ok(None).
deleted_always_some(deleted_count) == "Some"
deleted(deleted_count) == IF deleted_count = 0 THEN "None" ELSE "Some"

delete_note_applied(req, r) ==
    [coll |-> r.coll,
     reply |-> IF r.err # "none" THEN Reply("delete", req, "MongoQueryError", <<>>, r.err, 1)
               ELSE Reply("delete", req, deleted(r.deleted_count), <<>>, r.err, 1)]
delete_note_parsed(coll, req, oid, fail) ==
    IF is_none(oid)
    THEN [coll |-> coll, reply |-> InvalidIDError("delete", req, req.raw)]
    ELSE delete_note_applied(req, store_delete_one(coll, oid[1], fail))
delete_note_result(coll, raw, fail) ==
    delete_note_parsed(coll, Request(raw, NONE, 0, 0, coll, FALSE), parse(raw), fail)

delete_note(raw, fail) ==
    /\ last.op = "none"
    /\ collection' = delete_note_result(collection, raw, fail).coll
    /\ last' = delete_note_result(collection, raw, fail).reply
    /\ touched' = touch(delete_note_result(collection, raw, fail).coll)
    /\ UNCHANGED <<unique_title, now, next_oid, pc, body, datetime, new_id>>

\* ---- fetch_notes (db.rs 88-118) --------------------------------------------------
\* (page - 1) * limit is i64 arithmetic; u64::try_from(..).unwrap() panics on a
\* negative product; find's error is MongoQueryError; a failing cursor item
\* panics (doc.unwrap()).
fetch_notes_found(req, docs, fail) ==
    IF (fail = "cursor" /\ Len(docs) > 0) \/ \E i \in 1..Len(docs) : is_none(NoteModel(docs[i]))
    THEN Reply("list", req, "panic", <<>>, "other", 1)
    ELSE Reply("list", req, "Ok", [i \in 1..Len(docs) |-> doc_to_note(NoteModel(docs[i])[1])],
               "none", 1)
fetch_notes_skip(coll, req, skip, fail) ==
    IF skip.panic \/ skip.value < 0 THEN Reply("list", req, "panic", <<>>, "none", 0)
    ELSE IF fail = "find" THEN Reply("list", req, "MongoQueryError", <<>>, "other", 1)
    ELSE fetch_notes_found(req, store_find(coll, req.limit, skip.value), fail)
fetch_notes_product(coll, req, page_1, fail, overflow_checks) ==
    IF page_1.panic THEN Reply("list", req, "panic", <<>>, "none", 0)
    ELSE fetch_notes_skip(coll, req, arith(page_1.value * req.limit, overflow_checks), fail)
fetch_notes_result(coll, limit, page, fail, overflow_checks) ==
    fetch_notes_product(coll, Request(NONE, NONE, limit, page, coll, FALSE),
                        arith(page - 1, overflow_checks), fail, overflow_checks)

fetch_notes(limit, page, fail, overflow_checks) ==
    /\ last.op = "none"
    /\ last' = fetch_notes_result(collection, limit, page, fail, overflow_checks)
    /\ UNCHANGED <<collection, unique_title, now, next_oid, pc, body, datetime, new_id,
                   touched>>

\* notes_list_handler (handlers.rs 36-49): FilterOptions carries Option<usize>;
\* the defaults are applied and the values cast to i64.
DEFAULT_LIMIT == 10
DEFAULT_PAGE == 1
notes_list_handler(opts, fail, overflow_checks) ==
    fetch_notes(as_i64(unwrap_or(opts.limit, DEFAULT_LIMIT)),
                as_i64(unwrap_or(opts.page, DEFAULT_PAGE)), fail, overflow_checks)

\* The requests the clients send, one create_note in flight at a time. Every
\* UpdateNoteSchema goes to the first note, three of them to every identifier,
\* and a store failure is injected into one request of each kind.
Creators == {1}
IdRequests == (RawIds \X {FALSE}) \cup ({to_hex(GenOid(1))} \X {TRUE})
EditRequests ==
    ({to_hex(GenOid(1))} \X UpdateBodies \X {FALSE})
        \cup (RawIds \X {EmptyUpdate, TitleUpdate, FullUpdate} \X {FALSE})
        \cup ({to_hex(GenOid(1))} \X {FullUpdate} \X {TRUE})
\* FilterOptions values: small pages and limits, the defaults, and two wide
\* pages: one whose (page - 1) * limit is 2^IntBits, one that is negative as i64.
FilterOptions(limit, page) == [limit |-> limit, page |-> page]
SmallOptions ==
    {FilterOptions(Some(l), Some(p)) : l \in 0..MaxPage, p \in 0..MaxPage}
        \cup {FilterOptions(NONE, NONE)}
WideOptions ==
    {FilterOptions(Some(4), Some(2 ^ (IntBits - 2) + 1)),
     FilterOptions(Some(2), Some(2 ^ (IntBits - 1)))}
ListRequests ==
    (SmallOptions \X {"none"} \X {TRUE})
        \cup (WideOptions \X {"none"} \X BOOLEAN)
        \cup ({FilterOptions(Some(1), Some(1))} \X {"find", "cursor"} \X {TRUE})

Next ==
    \/ respond
    \/ Tick
    \/ \E p \in Creators, b \in CreateBodies : create_note(p, b)
    \/ \E p \in Procs, fail \in BOOLEAN : create_index(p, fail)
    \/ \E p \in Procs, fail \in BOOLEAN : insert_one(p, fail)
    \/ \E p \in Procs, fail \in BOOLEAN : find_one(p, fail)
    \/ \E r \in IdRequests : get_note(r[1], r[2])
    \/ \E r \in EditRequests : edit_note(r[1], r[2], r[3])
    \/ \E r \in IdRequests : delete_note(r[1], r[2])
    \/ \E r \in ListRequests : notes_list_handler(r[1], r[2], r[3])

Spec == Init /\ [][Next]_vars

\* Both handlers create at once; the other requests are the ones that change
\* titles or remove notes.
NextConcurrent ==
    \/ respond
    \/ Tick
    \/ \E p \in Procs, b \in CreateBodies : create_note(p, b)
    \/ \E p \in Procs, fail \in BOOLEAN : create_index(p, fail)
    \/ \E p \in Procs, fail \in BOOLEAN : insert_one(p, fail)
    \/ \E p \in Procs, fail \in BOOLEAN : find_one(p, fail)
    \/ \E raw \in StoredIds : get_note(raw, FALSE)
    \/ \E raw \in StoredIds, b \in {TitleUpdate, FullUpdate} : edit_note(raw, b, FALSE)
    \/ \E raw \in StoredIds : delete_note(raw, FALSE)
    \/ notes_list_handler(FilterOptions(NONE, NONE), "none", TRUE)

SpecConcurrent == Init /\ [][NextConcurrent]_vars

\* ---- properties ---------------------------------------------------------------
\* Positions of the documents of coll that hold title t.
titled(coll, t) == {i \in 1..Len(coll) : coll[i]["title"] = t}
\* The document with the _id the last request named, before and after it.
before == found_raw(last.pre, parse(last.raw)[1])
after == found_raw(collection, parse(last.raw)[1])
\* The last result is that of get, update or delete.
by_id == last.op \in {"get", "edit", "delete"}

\* C1: when a note with title t is stored, a create of title t fails at its
\* insert with MongoDuplicateError (never a success, and a MongoQueryError only
\* when the store itself fails), and the collection is unchanged and holds
\* exactly one note of title t.
C1_insert(p) ==
    (/\ pc[p] = "insert_one" /\ pc'[p] # "insert_one"
     /\ titled(collection, body[p][1].title) # {}
     /\ last'.err # "other")
    => (/\ last'.op = "create" /\ last'.outcome = "MongoDuplicateError"
        /\ collection' = collection
        /\ Cardinality(titled(collection', body[p][1].title)) = 1)
C1_DuplicateCreateFails == [][\A p \in Procs : C1_insert(p)]_vars
C1_Witness ==
    /\ last.op = "create" /\ last.outcome = "MongoDuplicateError"
    /\ Cardinality(titled(last.pre, last.body[1].title)) = 1
    /\ collection = last.pre
    /\ \A p \in Procs : pc[p] = "idle"

\* C2: of two creates of one title that are in flight together, the one that
\* reaches insert_one while the other's inserted document is still stored as
\* inserted fails with MongoDuplicateError and changes nothing; so two such
\* creates are never both past their insert; and an insert never replaces or
\* removes a stored document.
C2_loser(p, q) ==
    (/\ p # q /\ pc[p] = "insert_one" /\ pc'[p] # "insert_one"
     /\ pc[q] = "find_one" /\ ~touched[q]
     /\ body[p][1].title = body[q][1].title
     /\ last'.err # "other")
    => (/\ pc'[p] = "idle" /\ last'.outcome = "MongoDuplicateError"
        /\ collection' = collection)
C2_kept(p) ==
    (pc[p] = "insert_one" /\ pc'[p] # "insert_one")
    => SubSeq(collection', 1, Len(collection)) = collection
C2_one_inserted ==
    \A p \in Procs, q \in Procs :
        (/\ p # q /\ pc[p] = "find_one" /\ pc[q] = "find_one"
         /\ body[p][1].title = body[q][1].title)
        => (touched[p] \/ touched[q])
C2_ConcurrentCreates ==
    /\ []C2_one_inserted
    /\ [][\A p \in Procs : C2_kept(p) /\ \A q \in Procs : C2_loser(p, q)]_vars
C2_Witness ==
    /\ last.op = "create" /\ last.outcome = "MongoDuplicateError"
    /\ \E q \in Procs : /\ pc[q] = "find_one" /\ ~touched[q]
                        /\ body[q][1].title = last.body[1].title
    /\ collection = last.pre

\* C3: no two stored notes have the same title, in every reachable state,
\* those reached by an update that sets a title included.
C3_UniqueTitles ==
    \A i \in 1..Len(collection), j \in 1..Len(collection) :
        i # j => collection[i]["title"] # collection[j]["title"]
C3_Witness ==
    /\ Len(collection) = 2
    /\ last.op = "edit" /\ is_some(last.body[1].title)
    /\ last.err = "E11000"

\* C4: after an update that succeeds, each of title, content, category and
\* published that the request carries has the request's value, each one it
\* omits keeps its value, _id and createdAt are unchanged, and the response
\* shows the note as it is now stored.
set_or_kept(k, o) ==
    IF is_some(o) THEN after[1][k] = o[1] ELSE after[1][k] = before[1][k]
C4_PartialUpdate ==
    (last.op = "edit" /\ last.outcome = "Some")
    => (/\ is_some(before) /\ is_some(after)
        /\ set_or_kept("title", last.body[1].title)
        /\ set_or_kept("content", last.body[1].content)
        /\ set_or_kept("category", last.body[1].category)
        /\ set_or_kept("published", last.body[1].published)
        /\ after[1]["_id"] = before[1]["_id"]
        /\ after[1]["createdAt"] = before[1]["createdAt"]
        /\ last.notes[1].title = after[1]["title"]
        /\ last.notes[1].content = after[1]["content"]
        /\ last.notes[1].category = after[1]["category"]
        /\ last.notes[1].published = after[1]["published"]
        /\ last.notes[1].createdAt = after[1]["createdAt"])
C4_Witness ==
    /\ last.op = "edit" /\ last.outcome = "Some"
    /\ last.body[1].content = Some("y") /\ before[1]["content"] = "x"
    /\ is_none(last.body[1].title) /\ is_none(last.body[1].category)
    /\ is_none(last.body[1].published)
    /\ before[1]["category"] = "c" /\ before[1]["published"] = TRUE
    /\ Len(collection) = 2

\* C5: an update that matches a stored note sets its updatedAt to the time of
\* the update: when the clock has moved on since the note was last written, a
\* get after the update shows a strictly greater updatedAt.
C5_UpdateRefreshesUpdatedAt ==
    (/\ last.op = "edit" /\ last.outcome = "Some"
     /\ before[1]["updatedAt"] < now)
    => (/\ get_note_result(collection, last.raw, FALSE).outcome = "Some"
        /\ get_note_result(collection, last.raw, FALSE).notes[1].updatedAt = now
        /\ get_note_result(collection, last.raw, FALSE).notes[1].updatedAt
               > before[1]["updatedAt"])

\* C6: update(id, {}) on a stored note succeeds, leaves title, content,
\* category and published as they were, and still advances updatedAt when the
\* clock has moved on.
C6_EmptyUpdateAdvances ==
    (/\ last.op = "edit" /\ last.body[1] = EmptyUpdate
     /\ last.raw \in WellFormedIds /\ is_some(before)
     /\ last.err # "other"
     /\ before[1]["updatedAt"] < now)
    => (/\ last.outcome = "Some"
        /\ last.notes[1].title = before[1]["title"]
        /\ last.notes[1].content = before[1]["content"]
        /\ last.notes[1].category = before[1]["category"]
        /\ last.notes[1].published = before[1]["published"]
        /\ last.notes[1].updatedAt > before[1]["updatedAt"])

\* C7: a create whose title is not stored when it inserts, that meets no store
\* failure and whose new note no other request changes before it is re-read,
\* succeeds: the note it returns has a non-empty id, the request's title and
\* content, createdAt equal to updatedAt, the request's category or "" and the
\* request's published or false.
C7_CreateReturnsNote ==
    (/\ last.op = "create" /\ last.err # "other" /\ ~last.touched
     /\ (last.calls = 2 => titled(last.pre, last.body[1].title) = {}))
    => (/\ last.outcome = "Some"
        /\ Len(last.notes[1].id) > 0
        /\ last.notes[1].title = last.body[1].title
        /\ last.notes[1].content = last.body[1].content
        /\ last.notes[1].createdAt = last.notes[1].updatedAt
        /\ last.notes[1].category
             = (IF is_some(last.body[1].category) THEN last.body[1].category[1] ELSE "")
        /\ last.notes[1].published
             = (IF is_some(last.body[1].published) THEN last.body[1].published[1]
                ELSE FALSE))
C7_Witness ==
    /\ last.op = "create" /\ last.outcome = "Some" /\ ~last.touched
    /\ is_none(last.body[1].category) /\ is_none(last.body[1].published)
    /\ last.notes[1].category = "" /\ last.notes[1].published = FALSE
    /\ last.notes[1].createdAt = 1

\* C8: a get of the id create has just returned, issued before anything else,
\* returns the note of create's response, field for field.
C8_GetAfterCreate ==
    (last.op = "create" /\ last.outcome = "Some")
    => (/\ get_note_result(collection, last.notes[1].id, FALSE).outcome = "Some"
        /\ get_note_result(collection, last.notes[1].id, FALSE).notes = last.notes)
C8_Witness ==
    /\ last.op = "create" /\ last.outcome = "Some"
    /\ last.notes[1].id = to_hex(GenOid(2))
    /\ Len(collection) = 2
    /\ get_note_result(collection, last.notes[1].id, FALSE).notes = last.notes

\* C9: get, update and delete of an identifier that is no ObjectId (empty,
\* wrong length, a non-hex character) fail with InvalidIDError carrying the
\* string, without a store round trip and without changing the collection.
C9_MalformedId ==
    (by_id /\ last.raw \in MalformedIds)
    => (/\ last.outcome = "InvalidIDError" /\ last.arg = Some(last.raw)
        /\ last.calls = 0
        /\ collection = last.pre)
C9_Witness ==
    /\ last.op = "edit" /\ last.outcome = "InvalidIDError"
    /\ last.raw = [to_hex(GenOid(1)) EXCEPT ![1] = "g"]
    /\ last.body[1] = FullUpdate
    /\ Len(collection) > 0

\* C10: get, update and delete of a well-formed identifier that no stored note
\* has return Ok(None), not an error, unless the store fails, and leave the
\* collection unchanged; a delete repeated right after a delete that removed
\* the note returns Ok(None).
C10_NotFound ==
    /\ (by_id /\ last.raw \in WellFormedIds /\ is_none(before) /\ last.err # "other")
       => (last.outcome = "None" /\ collection = last.pre)
    /\ (last.op = "delete" /\ last.outcome = "Some")
       => (/\ delete_note_result(collection, last.raw, FALSE).reply.outcome = "None"
           /\ delete_note_result(collection, last.raw, FALSE).coll = collection)
C10_Witness ==
    /\ last.op = "delete" /\ last.outcome = "None"
    /\ last.raw = to_hex(GenOid(1))
    /\ next_oid > 1

\* C11: list(page, limit) with page >= 1 and limit >= 1 on N notes succeeds,
\* unless the store fails, with exactly min(limit, max(0, N - (page-1)*limit))
\* notes and results equal to that number (an empty list past the end).
Min(a, b) == IF a < b THEN a ELSE b
Max(a, b) == IF a > b THEN a ELSE b
C11_ListWindow ==
    (/\ last.op = "list" /\ last.page >= 1 /\ last.limit >= 1
     /\ last.err # "other")
    => (/\ last.outcome = "Ok"
        /\ Len(last.notes)
             = Min(last.limit, Max(0, Len(last.pre) - (last.page - 1) * last.limit))
        /\ last.results = Len(last.notes))

\* C12: a list request whose page or limit is not positive is rejected with an
\* InvalidPagination error: it does not panic and returns no notes.
C12_InvalidPagination ==
    (last.op = "list" /\ (last.page <= 0 \/ last.limit <= 0))
    => (/\ last.outcome = "InvalidPagination"
        /\ last.notes = <<>>
        /\ last.calls = 0)

\* C13: whenever a handler answers, the status follows the gateway outcome:
\* Ok(None) gives 404 (create's re-read finding nothing included),
\* MongoDuplicateError 409, InvalidIDError 400, MongoQueryError 500, and a
\* success status (200, 201, 204) is given only for a success value.
C13_StatusFollowsOutcome ==
    (last.op # "none" /\ last.outcome # "panic")
    => (/\ (last.outcome = "None" => last.status = 404)
        /\ (last.outcome = "MongoDuplicateError" => last.status = 409)
        /\ (last.outcome = "InvalidIDError" => last.status = 400)
        /\ (last.outcome = "MongoQueryError" => last.status = 500)
        /\ (last.status \in {200, 201, 204} => last.outcome \in {"Some", "Ok"}))

\* C14: a call repeated right after it returned (without a store failure)
\* leaves the stored notes and their title, content, category and published
\* as the first call left them: get and list write nothing, a repeated update
\* or delete changes nothing more, and a create repeated while the note it
\* inserted is stored as inserted is refused by the unique title index
\* (E11000) and adds no document.
facts(coll) ==
    [i \in 1..Len(coll) |->
        [id |-> coll[i]["_id"], title |-> coll[i]["title"], content |-> coll[i]["content"],
         category |-> coll[i]["category"], published |-> coll[i]["published"]]]
retried_insert ==
    store_insert_one(collection, store_create_index(collection, unique_title, FALSE).unique,
                     doc_with_dates(last.body[1], now), GenOid(next_oid), FALSE)
C14_RetryIsSafe ==
    /\ (last.op \in {"get", "list"}) => facts(collection) = facts(last.pre)
    /\ (last.op = "edit" /\ last.err # "other")
       => facts(edit_note_result(collection, unique_title, last.raw, last.body[1],
                                 FALSE).coll) = facts(collection)
    /\ (last.op = "delete" /\ last.err # "other")
       => facts(delete_note_result(collection, last.raw, FALSE).coll) = facts(collection)
    /\ (last.op = "create" /\ last.calls = 3 /\ ~last.touched)
       => (/\ store_create_index(collection, unique_title, FALSE).err = "none"
           /\ retried_insert.err = "E11000"
           /\ retried_insert.coll = collection)
C14_Witness ==
    /\ last.op = "create" /\ last.outcome = "Some" /\ ~last.touched
    /\ Len(collection) = 2
    /\ retried_insert.err = "E11000"

\* C15: every stored note has a published and a category value: create writes
\* false and "" when the request omits them, and no operation removes them.
C15_DefaultsMaterialized ==
    \A i \in 1..Len(collection) :
        /\ {"published", "category"} \subseteq DOMAIN collection[i]
        /\ collection[i]["published"] \in BOOLEAN
C15_Witness ==
    /\ last.op = "edit" /\ last.outcome = "Some"
    /\ last.body[1] = [EmptyUpdate EXCEPT !.content = Some("y")]
    /\ \E i \in 1..Len(collection) :
          /\ collection[i]["content"] = "y"
          /\ collection[i]["published"] = FALSE /\ collection[i]["category"] = ""

\* C16: every stored note has createdAt <= updatedAt, and no step changes the
\* createdAt of a note that stays stored, whatever updates are applied.
C16_ordered ==
    \A i \in 1..Len(collection) : collection[i]["createdAt"] <= collection[i]["updatedAt"]
C16_created_once ==
    \A i \in 1..Len(collection), j \in 1..Len(collection') :
        collection[i]["_id"] = collection'[j]["_id"]
        => collection[i]["createdAt"] = collection'[j]["createdAt"]
C16_CreatedAt == []C16_ordered /\ [][C16_created_once]_vars
C16_Witness ==
    /\ last.op = "edit" /\ last.outcome = "Some" /\ last.body[1] = FullUpdate
    /\ now = 1
    /\ before[1]["createdAt"] = 0 /\ after[1]["createdAt"] = 0
    /\ after[1]["createdAt"] <= after[1]["updatedAt"]

\* C17: deletion is terminal and identifiers are immutable: an identifier that
\* was generated and is no longer stored is never stored again, get, update
\* and delete of it return Ok(None) unless the store fails, and every step
\* keeps the identifiers of the stored notes, removing one or appending a
\* freshly generated one at most.
ids(coll) == [i \in 1..Len(coll) |-> coll[i]["_id"]]
generated == {GenOid(k) : k \in 1..(next_oid - 1)}
gone_from(coll) == {oid \in generated : \A i \in 1..Len(coll) : coll[i]["_id"] # oid}
gone == gone_from(collection)
C17_not_found ==
    (by_id /\ last.raw \in WellFormedIds /\ parse(last.raw)[1] \in gone_from(last.pre)
     /\ last.err # "other")
    => last.outcome = "None"
C17_step ==
    /\ \A oid \in gone : \A j \in 1..Len(collection') : collection'[j]["_id"] # oid
    /\ \/ ids(collection') = ids(collection)
       \/ \E i \in 1..Len(collection) : ids(collection') = Remove(ids(collection), i)
       \/ /\ ids(collection') = Append(ids(collection), GenOid(next_oid))
          /\ next_oid' = next_oid + 1
          /\ GenOid(next_oid) \notin generated
C17_DeletionIsTerminal == []C17_not_found /\ [][C17_step]_vars
C17_Witness ==
    /\ last.op = "edit" /\ last.outcome = "None"
    /\ last.raw = to_hex(GenOid(1)) /\ last.body[1] = FullUpdate
    /\ next_oid = 3 /\ Len(collection) = 1

\* C18: a store-level failure in any operation comes back to the caller as an
\* error of the taxonomy (MongoQueryError, status 500) and never panics the
\* handling task; a failure to create the title index is among them.
C18_StoreFailuresAreErrors ==
    (last.op # "none" /\ last.err = "other")
    => (/\ last.outcome = "MongoQueryError"
        /\ last.status = 500)

\* C19: a create issues insert_one only after its own create_index has
\* succeeded: a handler past create_index has the unique index in place, a
\* document is added only by a handler at insert_one with the index in
\* place, and a create whose create_index fails ends without an insert.
C19_index_first ==
    \A p \in Procs : pc[p] \in {"insert_one", "find_one"} => unique_title
C19_step ==
    /\ Len(collection') > Len(collection)
       => (unique_title /\ \E p \in Procs : pc[p] = "insert_one" /\ pc'[p] = "find_one")
    /\ \A p \in Procs :
          (pc[p] = "create_index" /\ pc'[p] # "create_index")
          => \/ pc'[p] = "insert_one" /\ unique_title' /\ collection' = collection
             \/ /\ pc'[p] = "idle" /\ collection' = collection
                /\ last'.op = "create" /\ last'.calls = 1 /\ last'.err = "other"
C19_IndexBeforeInsert == []C19_index_first /\ [][C19_step]_vars
C19_Witness ==
    /\ last.op = "create" /\ last.calls = 1 /\ last.err = "other"
    /\ collection = last.pre /\ collection = <<>>
    /\ ~unique_title
    /\ \E q \in Procs : pc[q] = "create_index"

\* C20: update is one atomic find-and-modify that returns the post-update
\* document: the note a successful update returns carries the request's
\* value for every field the request holds, is exactly the document as
\* stored by this step, and no other document is changed by it.
carries(k, o) == is_some(o) => last.notes[1][k] = o[1]
C20_AtomicUpdate ==
    (last.op = "edit" /\ last.outcome = "Some")
    => (/\ carries("title", last.body[1].title)
        /\ carries("content", last.body[1].content)
        /\ carries("category", last.body[1].category)
        /\ carries("published", last.body[1].published)
        /\ last.notes[1].id = to_hex(parse(last.raw)[1])
        /\ last.notes[1].updatedAt = after[1]["updatedAt"]
        /\ last.notes = <<doc_to_note(NoteModel(after[1])[1])>>
        /\ Len(collection) = Len(last.pre)
        /\ \A i \in 1..Len(collection) :
              collection[i]["_id"] # parse(last.raw)[1] => collection[i] = last.pre[i])
C20_Witness ==
    /\ last.op = "edit" /\ last.outcome = "Some"
    /\ last.body[1] = TitleUpdate
    /\ before[1]["title"] = "a" /\ before[1]["content"] = "y"
    /\ last.notes[1].title = "b" /\ last.notes[1].content = "y"

\* C21: create is insert_one and then find_one by the assigned _id, two store
\* steps: when the re-read meets no store failure and the inserted document is
\* no longer stored, create returns Ok(None), with no note and no error; the
\* re-read inserts nothing, removes nothing and generates no identifier; and
\* create returns Ok(None) from its re-read only, after its insert succeeded
\* and with the document missing.
C21_reread(p) ==
    (pc[p] = "find_one" /\ pc'[p] # "find_one")
    => (/\ is_some(new_id[p]) /\ new_id[p][1] \in generated
        /\ last'.op = "create" /\ last'.calls = 3
        /\ collection' = collection /\ next_oid' = next_oid
        /\ (last'.err # "other" /\ is_none(found_raw(collection, new_id[p][1])))
           => (/\ last'.outcome = "None" /\ last'.notes = <<>>
               /\ last'.status \notin {400, 404, 409, 500}))
C21_only_reread ==
    (last'.op = "create" /\ last'.outcome = "None" /\ last.op = "none")
    => \E p \in Procs :
          /\ pc[p] = "find_one" /\ pc'[p] = "idle"
          /\ is_none(found_raw(collection, new_id[p][1]))
          /\ last'.err = "none"
C21_CreateReread == [][C21_only_reread /\ \A p \in Procs : C21_reread(p)]_vars
C21_Witness ==
    /\ last.op = "create" /\ last.outcome = "None" /\ last.calls = 3
    /\ last.touched /\ last.err = "none"
    /\ next_oid = 2 /\ collection = <<>>
    /\ \A p \in Procs : pc[p] = "idle"

\* C22: an update of a stored note whose title is that of a different stored
\* note is refused by the unique title index (E11000): the result is
\* MongoQueryError with status 500, not MongoDuplicateError with 409, and the
\* collection, both notes included, is as it was before the call.
C22_title_of_another ==
    /\ last.op = "edit" /\ last.raw \in WellFormedIds /\ is_some(before)
    /\ is_some(last.body[1].title)
    /\ \E i \in 1..Len(last.pre) :
          /\ last.pre[i]["_id"] # parse(last.raw)[1]
          /\ last.pre[i]["title"] = last.body[1].title[1]
C22_UpdateTitleConflict ==
    (C22_title_of_another /\ last.err # "other")
    => (/\ last.err = "E11000"
        /\ last.outcome = "MongoQueryError" /\ last.status = 500
        /\ last.outcome # "MongoDuplicateError" /\ last.status # 409
        /\ last.notes = <<>>
        /\ collection = last.pre)
C22_Witness ==
    /\ C22_title_of_another
    /\ last.body[1] = TitleUpdate /\ before[1]["title"] = "a"
    /\ last.outcome = "MongoQueryError" /\ last.status = 500
    /\ Len(collection) = 2 /\ collection = last.pre
    /\ titled(collection, "a") # {} /\ titled(collection, "b") # {}

\* C23: each step changes at most the note it addresses: get and list leave
\* the collection as it is; update and delete leave every note with another
\* _id as it is, in its place among the others; the steps of a create leave
\* every stored note as it is; and the number of stored notes changes only by
\* +1, at an insert_one that succeeds, and by -1, at a delete that removed a note.
C23_answered(op) == last.op = "none" /\ last'.op = op
C23_others_kept(oid) ==
    SelectSeq(collection', LAMBDA d : d["_id"] # oid)
        = SelectSeq(collection, LAMBDA d : d["_id"] # oid)
C23_inserted == \E p \in Procs : pc[p] = "insert_one" /\ pc'[p] = "find_one"
C23_deleted == C23_answered("delete") /\ last'.outcome = "Some"
C23_step ==
    /\ (C23_answered("get") \/ C23_answered("list")) => collection' = collection
    /\ (C23_answered("edit") \/ C23_answered("delete"))
       => IF is_none(parse(last'.raw)) THEN collection' = collection
          ELSE C23_others_kept(parse(last'.raw)[1])
    /\ C23_answered("edit") => Len(collection') = Len(collection)
    /\ (C23_answered("create") \/ \E p \in Procs : pc'[p] # pc[p])
       => SubSeq(collection', 1, Len(collection)) = collection
    /\ C23_inserted <=> Len(collection') = Len(collection) + 1
    /\ C23_deleted <=> Len(collection') = Len(collection) - 1
    /\ Len(collection') # Len(collection) => (C23_inserted \/ C23_deleted)
C23_FrameEffect == [][C23_step]_vars
C23_Witness ==
    /\ last.op = "delete" /\ last.outcome = "Some" /\ last.raw = to_hex(GenOid(1))
    /\ Len(last.pre) = 2 /\ collection = <<last.pre[2]>>
    /\ last.pre[1]["_id"] = GenOid(1)

====
